---- MODULE Spec2Model ----
(***************************************************************************)
(* Model of the Open Graph image handler, src/pages/api/opengraph/image.ts *)
(*                                                                         *)
(* One request is followed from its query string to the settling of the    *)
(* handler's promise.  JavaScript strings are sequences of one-character   *)
(* strings, so that parseInt, the allow-list regular expressions and the   *)
(* template literals are computed character by character.  Every call     *)
(* into puppeteer or into the response object either returns (with its     *)
(* effect) or throws (without it); the calls of the catch block and of the *)
(* validation branch (res.status, res.json, res.redirect) return.          *)
(***************************************************************************)
EXTENDS Integers, Sequences, FiniteSets, TLC

(***************************************************************************)
(* JavaScript values of req.query: undefined, a string, an array of        *)
(* strings (a repeated parameter).                                         *)
(***************************************************************************)
Undef == [t |-> "undefined", s |-> <<>>, a |-> <<>>]
Str(s) == [t |-> "string", s |-> s, a |-> <<>>]
Arr(a) == [t |-> "array", s |-> <<>>, a |-> a]

RECURSIVE Join(_)
\* Array.prototype.join(","), the string an array coerces to
Join(a) ==
  IF a = <<>> THEN <<>>
  ELSE IF Len(a) = 1 THEN a[1]
  ELSE a[1] \o <<",">> \o Join(Tail(a))

\* String(v): the coercion applied by RegExp.test, parseInt and toString
ToStr(v) ==
  IF v.t = "undefined" THEN <<"u","n","d","e","f","i","n","e","d">>
  ELSE IF v.t = "string" THEN v.s
  ELSE Join(v.a)

\* Truthy as `v !== undefined` would test it
TruthyWhenDefined(v) == v.t \notin {"undefined", "null"}

\* ToBoolean(v): what `!url` and `if (fallback)` test
Truthy(v) ==
  IF v.t \in {"undefined", "null"} THEN FALSE
  ELSE IF v.t = "string" THEN v.s # <<>>
  ELSE TRUE

(***************************************************************************)
(* Characters.                                                             *)
(***************************************************************************)
Digits == <<"0","1","2","3","4","5","6","7","8","9">>
Lowers == <<"a","b","c","d","e","f","g","h","i","j","k","l","m",
            "n","o","p","q","r","s","t","u","v","w","x","y","z">>
Uppers == <<"A","B","C","D","E","F","G","H","I","J","K","L","M",
            "N","O","P","Q","R","S","T","U","V","W","X","Y","Z">>
WhiteSpace == {" ", "\t", "\n"}

Range(f) == {f[i] : i \in DOMAIN f}
IndexOf(q, c) == CHOOSE i \in DOMAIN q : q[i] = c

DigitChars == Range(Digits)
LowerChars == Range(Lowers)
UpperChars == Range(Uppers)
WordChars == DigitChars \cup LowerChars \cup UpperChars \cup {"_"}

\* the canonical lower-case form the /i flag compares by
Lower(c) == IF c \in UpperChars THEN Lowers[IndexOf(Uppers, c)] ELSE c

\* [\w-]
WordOrDashChars == WordChars \cup {"-"}

(***************************************************************************)
(* parseInt(string) with no radix.                                         *)
(***************************************************************************)
NaN == [nan |-> TRUE, n |-> 0]
Num(k) == [nan |-> FALSE, n |-> k]

RECURSIVE TrimLeft(_)
TrimLeft(s) ==
  IF s # <<>> /\ s[1] \in WhiteSpace THEN TrimLeft(Tail(s)) ELSE s

\* the value of character c as a digit of radix r, or -1
DigitVal(c, r) ==
  LET v == IF c \in DigitChars THEN IndexOf(Digits, c) - 1
           ELSE IF Lower(c) \in LowerChars THEN IndexOf(Lowers, Lower(c)) + 9
           ELSE -1
  IN IF v < r THEN v ELSE -1

RECURSIVE DigitPrefix(_, _, _, _)
\* reads digits of radix r from s; acc is the value so far, any whether a
\* digit has been read
DigitPrefix(s, r, acc, any) ==
  IF s # <<>> /\ DigitVal(s[1], r) >= 0
  THEN DigitPrefix(Tail(s), r, acc * r + DigitVal(s[1], r), TRUE)
  ELSE IF any THEN Num(acc) ELSE NaN

parseInt(v) ==
  LET t == TrimLeft(ToStr(v))
      neg == t # <<>> /\ t[1] = "-"
      u == IF t # <<>> /\ t[1] \in {"+", "-"} THEN Tail(t) ELSE t
      hex == Len(u) >= 2 /\ u[1] = "0" /\ u[2] \in {"x", "X"}
      w == IF hex THEN SubSeq(u, 3, Len(u)) ELSE u
      m == DigitPrefix(w, IF hex THEN 16 ELSE 10, 0, FALSE)
  IN IF m.nan THEN NaN ELSE IF neg THEN Num(0 - m.n) ELSE m

\* `x || d` on a number: NaN and 0 are falsy
OrDefault(x, d) == IF x.nan \/ x.n = 0 THEN d ELSE x.n

RECURSIVE NumToStr(_)
\* the decimal string a template literal interpolates for a natural number
NumToStr(n) ==
  IF n < 10 THEN <<Digits[n + 1]>>
  ELSE NumToStr(n \div 10) \o <<Digits[(n % 10) + 1]>>

(***************************************************************************)
(* The allow-list regular expressions.  A pattern is matched from the      *)
(* start of the string (^), case-insensitively (/i), and need not reach    *)
(* the end of it.                                                          *)
(***************************************************************************)
\* s carries the literal lit (given in lower case) at position i
HasAt(s, i, lit) ==
  /\ i + Len(lit) - 1 <= Len(s)
  /\ \A j \in 1..Len(lit) : Lower(s[i + j - 1]) = lit[j]

\* the k characters of s from position i on all belong to class
RunOf(s, i, k, class) ==
  /\ i + k - 1 <= Len(s)
  /\ \A j \in i..(i + k - 1) : s[j] \in class

LitHttps == <<"h","t","t","p","s",":","/","/">>
LitHttp == <<"h","t","t","p",":","/","/">>
LitOkpcApp == <<"o","k","p","c",".","a","p","p","/">>
LitOkpcVercel == <<"-","o","k","p","c",".","v","e","r","c","e","l",".","a","p","p","/">>
LitLocalhost == <<"l","o","c","a","l","h","o","s","t">>

\* /^https:\/\/([\w-]+\.)?okpc\.app\//i
ReOkpcApp(s) ==
  /\ HasAt(s, 1, LitHttps)
  /\ \/ HasAt(s, 9, LitOkpcApp)
     \/ \E k \in 1..Len(s) :
          /\ RunOf(s, 9, k, WordOrDashChars)
          /\ HasAt(s, 9 + k, <<".">> \o LitOkpcApp)

\* /^https:\/\/[\w-]+-okpc\.vercel\.app\//i
ReOkpcVercel(s) ==
  /\ HasAt(s, 1, LitHttps)
  /\ \E k \in 1..Len(s) :
       /\ RunOf(s, 9, k, WordOrDashChars)
       /\ HasAt(s, 9 + k, LitOkpcVercel)

\* /^http:\/\/localhost(:\d+)?\//i
ReLocalhost(s) ==
  /\ HasAt(s, 1, LitHttp \o LitLocalhost)
  /\ \/ HasAt(s, 17, <<"/">>)
     \/ \E k \in 1..Len(s) :
          /\ HasAt(s, 17, <<":">>)
          /\ RunOf(s, 18, k, DigitChars)
          /\ HasAt(s, 18 + k, <<"/">>)

\* RegExp.prototype.test of the pattern named p
Test(p, s) ==
  IF p = "okpc.app" THEN ReOkpcApp(s)
  ELSE IF p = "okpc.vercel.app" THEN ReOkpcVercel(s)
  ELSE ReLocalhost(s)

\* allowedHostnames with the localhost pattern pushed unconditionally
allowedHostnamesWithLocalhost(env) ==
  <<"okpc.app", "okpc.vercel.app", "localhost">>

\* the allow-list after module load, under the given NODE_ENV
allowedHostnames(env) ==
  <<"okpc.app", "okpc.vercel.app">>
    \o (IF env # "production" THEN <<"localhost">> ELSE <<>>)

\* allowedHostnames.some((hostname) => hostname.test(url))
UrlAllowed(env, url) ==
  \E i \in DOMAIN allowedHostnames(env) : Test(allowedHostnames(env)[i], ToStr(url))

(***************************************************************************)
(* Formats.                                                                *)
(***************************************************************************)
FmtPng == <<"p","n","g">>
FmtJpeg == <<"j","p","e","g">>
FmtWebp == <<"w","e","b","p">>
allowedFormats == <<FmtPng, FmtJpeg, FmtWebp>>

\* includes accepting any string
includesAnyString(values, value) == value.t = "string"

\* values.includes(value): SameValueZero of a query value against strings
includes(values, value) ==
  \E i \in DOMAIN values : value.t = "string" /\ value.s = values[i]

\* includes(allowedFormats, req.query.format) ? req.query.format : "png"
ResolveFormat(v) == IF includes(allowedFormats, v) THEN v.s ELSE FmtPng

\* typeof req.query.fallback === "string" ? req.query.fallback : null
Null == [t |-> "null", s |-> <<>>, a |-> <<>>]
ResolveFallback(v) == IF v.t = "string" THEN v ELSE Null

\* CacheControlValue with the two windows exchanged
CacheControlValueSwapped ==
  <<"s","-","m","a","x","a","g","e","=">> \o NumToStr(60 * 60 * 24)
    \o <<",", " ">>
    \o <<"s","t","a","l","e","-","w","h","i","l","e","-",
         "r","e","v","a","l","i","d","a","t","e","=">> \o NumToStr(60 * 60 * 8)

\* `s-maxage=${60 * 60 * 8}, stale-while-revalidate=${60 * 60 * 24}`
CacheControlValue ==
  <<"s","-","m","a","x","a","g","e","=">> \o NumToStr(60 * 60 * 8)
    \o <<",", " ">>
    \o <<"s","t","a","l","e","-","w","h","i","l","e","-",
         "r","e","v","a","l","i","d","a","t","e","=">> \o NumToStr(60 * 60 * 24)

\* `image/${format}`
ContentTypeValue(format) == <<"i","m","a","g","e","/">> \o format

(***************************************************************************)
(* Requests.  The query parameters are drawn from the values below.        *)
(***************************************************************************)
UrlRoot == LitHttps \o LitOkpcApp
UrlSub == LitHttps \o <<"w","w","w",".">> \o LitOkpcApp \o <<"x">>
UrlUpper == <<"H","T","T","P","S",":","/","/","O","K","P","C",".","A","P","P","/">>
UrlPreview == LitHttps \o <<"p","r","-","1">> \o LitOkpcVercel
UrlLocal == LitHttp \o LitLocalhost \o <<":","3","0","0","0","/">>
UrlEvil == LitHttps \o <<"e","v","i","l",".","c","o","m","/">>
UrlNoSlash == LitHttps \o <<"o","k","p","c",".","a","p","p">>
UrlTwoLabels == LitHttps \o <<"a",".","b",".">> \o LitOkpcApp
UrlPlainHttp == LitHttp \o LitOkpcApp

UrlValues ==
  {Undef, Str(<<>>), Str(UrlRoot), Str(UrlSub), Str(UrlUpper), Str(UrlPreview),
   Str(UrlLocal), Str(UrlEvil), Str(UrlNoSlash),
   Str(UrlTwoLabels), Str(UrlPlainHttp), Arr(<<UrlRoot, <<"x">>>>)}

FallbackUrl == LitHttps \o <<"e","x",".","c","o","m","/","d",".","p","n","g">>
FallbackValues == {Undef, Str(<<>>), Str(FallbackUrl), Arr(<<FallbackUrl, FallbackUrl>>)}

FormatValues ==
  {Undef, Str(FmtPng), Str(FmtJpeg), Str(FmtWebp), Str(<<"P","N","G">>),
   Arr(<<FmtJpeg, FmtWebp>>)}

\* the largest magnitude of the integers written out as parameters
MaxNum == 2

\* the decimal string of an integer, as a client writes it in a query
IntToStr(n) == IF n < 0 THEN <<"-">> \o NumToStr(0 - n) ELSE NumToStr(n)
IntStrings == {Str(IntToStr(n)) : n \in (0 - MaxNum)..MaxNum}

PixelDensityValues ==
  IntStrings \cup {Undef, Str(<<" ","+","3","p","x">>), Str(<<"x">>)}

QualityValues ==
  IntStrings \cup {Undef, Str(<<"1","0","0">>), Str(<<"1","0","1">>),
                   Str(<<"0","x","1","F">>)}

Envs == {"production", "development"}
Images == {"imageA", "imageB"}

(***************************************************************************)
(* State.                                                                  *)
(***************************************************************************)
VARIABLES
  NODE_ENV,      \* process.env.NODE_ENV at module load
  query,         \* req.query
  pc,            \* the statement the handler is at
  fallback,      \* the handler's locals
  pixelDensity,
  format,
  quality,
  browser,       \* null or the handle of the launched browser
  imageBuffer,
  error,         \* the value caught by the catch block
  calls,         \* the calls made into puppeteer, in order
  viewport,      \* the argument of page.setViewport
  navTimeout,    \* the argument of page.setDefaultNavigationTimeout
  selectorTimeout, \* the timeout option of page.waitForSelector
  hangs,         \* the wait that the target page never lets complete
  cutoff,        \* the wait that timed out and the timeout that ended it
  shot,          \* the argument of element.screenshot
  res,           \* the response object: status code and headers set so far
  responses,     \* the responses issued, in order
  logged,        \* the console.error calls
  outcome,       \* the handler's promise
  inflight,      \* the handler invocations running concurrently, each with
                 \* its own locals
  browsers       \* the browser processes launched by them

locals == <<fallback, pixelDensity, format, quality>>
pageState == <<viewport, navTimeout, selectorTimeout, shot>>
handlerVars ==
  <<NODE_ENV, query, pc, fallback, pixelDensity, format, quality, browser,
    imageBuffer, error, calls, viewport, navTimeout, selectorTimeout,
    hangs, cutoff, shot, res, responses, logged, outcome>>
concVars == <<inflight, browsers>>
vars == <<handlerVars, concVars>>

NoHeader == <<>>
NoError == [name |-> "", message |-> ""]
NoBody == [code |-> "", message |-> "", image |-> ""]
NoQuality == [defined |-> FALSE, n |-> 0]
NoCutoff == [op |-> "", by |-> ""]

\* Error.prototype.toString
ErrToString(e) == e.name \o ": " \o e.message
\* the error a failing call of op rejects with
CallError(op) == [name |-> "Error", message |-> op \o " failed"]

Queries ==
  [url : UrlValues, fallback : FallbackValues, pixelDensity : PixelDensityValues,
   format : FormatValues, quality : QualityValues]

\* the waits of the pipeline that a target page can leave pending for ever
HangPoints == {"goto", "waitForNetworkIdle", "waitForSelector"}

\* requests to a target page that may hang
HangQueries ==
  [url : {Undef, Str(UrlEvil), Str(UrlRoot)}, fallback : {Undef, Str(FallbackUrl)},
   pixelDensity : {Undef}, format : {Undef, Str(FmtJpeg)}, quality : {Undef}]

\* the state at the entry of the handler, for a request among requests and
\* a target page hanging at one of hangPoints
InitWith(requests, hangPoints) ==
  /\ NODE_ENV \in Envs
  /\ query \in requests
  /\ hangs \in hangPoints
  /\ selectorTimeout = 0
  /\ cutoff = NoCutoff
  /\ pc = "validate"
  /\ fallback = Null
  /\ pixelDensity = 0
  /\ format = <<>>
  /\ quality = 0
  /\ browser = "null"
  /\ imageBuffer = ""
  /\ error = NoError
  /\ calls = <<>>
  /\ viewport = [width |-> 0, height |-> 0, deviceScaleFactor |-> 0]
  /\ navTimeout = 0
  /\ shot = [type |-> <<>>, quality |-> NoQuality]
  /\ res = [statusCode |-> 200, cacheControl |-> NoHeader, contentType |-> NoHeader,
            location |-> NoHeader]
  /\ responses = <<>>
  /\ logged = <<>>
  /\ outcome = "pending"

\* no concurrent invocations
ConcIdle ==
  /\ inflight = <<>>
  /\ browsers = <<>>

Init == InitWith(Queries, {"none"}) /\ ConcIdle
InitHang == InitWith(HangQueries, HangPoints \cup {"none"}) /\ ConcIdle

(***************************************************************************)
(* The response object.                                                    *)
(***************************************************************************)
JsonContentType ==
  <<"a","p","p","l","i","c","a","t","i","o","n","/","j","s","o","n">>

\* res.status(code).json(body): the response leaves with the headers set so
\* far, the content type replaced by the JSON one
SendJson(r, code, body) ==
  [kind |-> "json", status |-> code, cacheControl |-> r.cacheControl,
   contentType |-> JsonContentType, location |-> NoHeader, body |-> body]

\* res.send(buffer): the response leaves with the status code and the
\* headers set so far
SendBuffer(r, buffer) ==
  [kind |-> "send", status |-> r.statusCode, cacheControl |-> r.cacheControl,
   contentType |-> r.contentType, location |-> NoHeader,
   body |-> [code |-> "", message |-> "", image |-> buffer]]

\* res.redirect(target): a temporary redirect to target
SendRedirect(r, target) ==
  [kind |-> "redirect", status |-> 307, cacheControl |-> r.cacheControl,
   contentType |-> r.contentType, location |-> target, body |-> NoBody]

(***************************************************************************)
(* The handler.                                                            *)
(***************************************************************************)
\* Throw with one retry of the whole pipeline before the catch block
ThrowThenRetry(e) ==
  /\ error' = e
  /\ pc' = IF error = NoError THEN "launch" ELSE "catch"
  /\ UNCHANGED cutoff

\* a call inside the try block throws: control passes to the catch block
Throw(e) ==
  /\ error' = e
  /\ pc' = "catch"
  /\ UNCHANGED cutoff

\* lines 45-49: the url parameter is absent or empty
RejectMissingUrl ==
  /\ pc = "validate"
  /\ ~Truthy(query.url)
  /\ res' = [res EXCEPT !.statusCode = 400]
  /\ responses' = Append(responses,
       SendJson(res, 400, [code |-> "MISSING_URL", message |-> "", image |-> ""]))
  /\ pc' = "done"
  /\ outcome' = "resolved"
  /\ UNCHANGED <<concVars, NODE_ENV, query, hangs, locals, browser, imageBuffer, error, cutoff, calls,
                 pageState, logged>>

\* RejectInvalidUrl redirecting to the fallback when one was supplied
RejectInvalidUrlToFallback ==
  /\ pc = "validate"
  /\ Truthy(query.url)
  /\ ~UrlAllowed(NODE_ENV, query.url)
  /\ IF Truthy(ResolveFallback(query.fallback))
     THEN /\ responses' = Append(responses, SendRedirect(res, query.fallback.s))
          /\ UNCHANGED res
     ELSE /\ res' = [res EXCEPT !.statusCode = 400]
          /\ responses' = Append(responses,
               SendJson(res, 400, [code |-> "INVALID_URL", message |-> "", image |-> ""]))
  /\ pc' = "done"
  /\ outcome' = "resolved"
  /\ UNCHANGED <<concVars, NODE_ENV, query, hangs, locals, browser, imageBuffer, error, cutoff,
                 calls, pageState, logged>>

\* lines 51-54: the url parameter matches no allow-list pattern
RejectInvalidUrl ==
  /\ pc = "validate"
  /\ Truthy(query.url)
  /\ ~UrlAllowed(NODE_ENV, query.url)
  /\ res' = [res EXCEPT !.statusCode = 400]
  /\ responses' = Append(responses,
       SendJson(res, 400, [code |-> "INVALID_URL", message |-> "", image |-> ""]))
  /\ pc' = "done"
  /\ outcome' = "resolved"
  /\ UNCHANGED <<concVars, NODE_ENV, query, hangs, locals, browser, imageBuffer, error, cutoff, calls,
                 pageState, logged>>

\* lines 56-65: the url passed validation; the other parameters are resolved
ResolveParams ==
  /\ pc = "validate"
  /\ Truthy(query.url)
  /\ UrlAllowed(NODE_ENV, query.url)
  /\ fallback' = ResolveFallback(query.fallback)
  /\ pixelDensity' = OrDefault(parseInt(query.pixelDensity), 1)
  /\ format' = ResolveFormat(query.format)
  /\ quality' = OrDefault(parseInt(query.quality), 70)
  /\ pc' = "launch"
  /\ UNCHANGED <<concVars, NODE_ENV, query, hangs, browser, imageBuffer, error, cutoff, calls, pageState,
                 res, responses, logged, outcome>>

\* getBrowserInstance awaited before the try block: a failed launch rejects
\* the handler's promise
getBrowserInstanceOutsideTry ==
  /\ pc = "launch"
  /\ calls' = Append(calls, "launch")
  /\ \/ /\ browser' = "browser"
        /\ pc' = "newPage"
        /\ UNCHANGED <<error, cutoff, outcome>>
     \/ /\ error' = CallError("launch")
        /\ pc' = "done"
        /\ outcome' = "rejected"
        /\ UNCHANGED <<browser, cutoff>>
  /\ UNCHANGED <<concVars, NODE_ENV, query, hangs, locals, imageBuffer, pageState, res,
                 responses, logged>>

\* line 68 and lines 23-42: browser = await getBrowserInstance()
getBrowserInstance ==
  /\ pc = "launch"
  /\ calls' = Append(calls, "launch")
  /\ \/ /\ browser' = "browser"
        /\ pc' = "newPage"
        /\ UNCHANGED <<error, cutoff>>
     \/ /\ Throw(CallError("launch"))
        /\ UNCHANGED browser
  /\ UNCHANGED <<concVars, NODE_ENV, query, hangs, locals, imageBuffer, pageState, res, responses,
                 logged, outcome>>

\* an awaited call of the try block that changes nothing but the position
PlainCall(at, op, next) ==
  /\ pc = at
  /\ calls' = Append(calls, op)
  /\ \/ /\ pc' = next
        /\ UNCHANGED <<error, cutoff>>
     \/ Throw(CallError(op))
  /\ UNCHANGED <<concVars, NODE_ENV, query, hangs, locals, browser, imageBuffer, pageState, res,
                 responses, logged, outcome>>

\* line 69: page = await browser.newPage()
NewPage == PlainCall("newPage", "newPage", "setViewport")

\* SetViewport followed by the navigation, the timeout left unconfigured
SetViewportThenGoto ==
  /\ pc = "setViewport"
  /\ calls' = Append(calls, "setViewport")
  /\ viewport' = [width |-> 1280, height |-> 720, deviceScaleFactor |-> pixelDensity]
  /\ \/ /\ pc' = "goto"
        /\ UNCHANGED <<error, cutoff>>
     \/ Throw(CallError("setViewport"))
  /\ UNCHANGED <<concVars, NODE_ENV, query, hangs, locals, browser, imageBuffer, navTimeout,
                 selectorTimeout, shot, res, responses, logged, outcome>>

\* lines 70-74: await page.setViewport({...})
SetViewport ==
  /\ pc = "setViewport"
  /\ calls' = Append(calls, "setViewport")
  /\ viewport' = [width |-> 1280, height |-> 720, deviceScaleFactor |-> pixelDensity]
  /\ \/ /\ pc' = "setDefaultNavigationTimeout"
        /\ UNCHANGED <<error, cutoff>>
     \/ Throw(CallError("setViewport"))
  /\ UNCHANGED <<concVars, NODE_ENV, query, hangs, locals, browser, imageBuffer, navTimeout, selectorTimeout,
                 shot,
                 res, responses, logged, outcome>>

\* line 75: page.setDefaultNavigationTimeout(1000 * 10)
SetDefaultNavigationTimeout ==
  /\ pc = "setDefaultNavigationTimeout"
  /\ calls' = Append(calls, "setDefaultNavigationTimeout")
  /\ navTimeout' = 1000 * 10
  /\ pc' = "goto"
  /\ UNCHANGED <<concVars, NODE_ENV, query, hangs, locals, browser, imageBuffer, error, cutoff, viewport,
                 selectorTimeout, shot, res, responses, logged, outcome>>

\* the error a wait rejects with when its timeout expires
TimeoutError(op) == [name |-> "TimeoutError", message |-> op \o " timed out"]

\* the timeout that bounds a navigation: the page's navigation timeout when
\* one was set, the page's default timeout otherwise
NavigationTimer == IF navTimeout # 0 THEN "navigationTimeout" ELSE "defaultTimeout"

\* an awaited wait of the try block: it returns or throws, and when the page
\* hangs at it, it is ended by the timeout named timer
WaitCall(at, op, next, timer) ==
  /\ pc = at
  /\ calls' = Append(calls, op)
  /\ IF hangs = op
     THEN /\ error' = TimeoutError(op)
          /\ cutoff' = [op |-> op, by |-> timer]
          /\ pc' = "catch"
     ELSE \/ /\ pc' = next
             /\ UNCHANGED <<error, cutoff>>
          \/ Throw(CallError(op))

\* line 77: await page.goto(url.toString()), bounded by the navigation
\* timeout of line 75
Goto ==
  /\ WaitCall("goto", "goto", "waitForNetworkIdle", NavigationTimer)
  /\ UNCHANGED <<concVars, NODE_ENV, query, hangs, locals, browser, imageBuffer, pageState,
                 res, responses, logged, outcome>>

\* line 78: await page.waitForNetworkIdle(): no timeout is passed and the
\* page's default timeout is never set, so the wait is bounded by the
\* default timeout, not by the navigation timeout
WaitForNetworkIdle ==
  /\ WaitCall("waitForNetworkIdle", "waitForNetworkIdle", "waitForSelector",
              "defaultTimeout")
  /\ UNCHANGED <<concVars, NODE_ENV, query, hangs, locals, browser, imageBuffer, pageState,
                 res, responses, logged, outcome>>

\* line 80: await page.waitForSelector("#opengraph-image", { timeout: 500 })
WaitForSelector ==
  /\ WaitCall("waitForSelector", "waitForSelector", "$", "options.timeout")
  /\ selectorTimeout' = 500
  /\ UNCHANGED <<concVars, NODE_ENV, query, hangs, locals, browser, imageBuffer, viewport,
                 navTimeout, shot, res, responses, logged, outcome>>

\* lines 81-85: element = await page.$("#opengraph-image"); a null element
\* is thrown as an error
QuerySelector ==
  /\ pc = "$"
  /\ calls' = Append(calls, "$")
  /\ \/ /\ pc' = "screenshot"
        /\ UNCHANGED <<error, cutoff>>
     \/ Throw([name |-> "Error",
               message |-> "No #opengraph-image element found at path"])
     \/ Throw(CallError("$"))
  /\ UNCHANGED <<concVars, NODE_ENV, query, hangs, locals, browser, imageBuffer, pageState, res,
                 responses, logged, outcome>>

\* ScreenshotOptions passing the quality whatever the format
ScreenshotOptionsAlwaysQuality(fmt, q) ==
  [type |-> fmt, quality |-> [defined |-> TRUE, n |-> q]]

\* quality: format === "png" ? undefined : quality
ScreenshotOptions(fmt, q) ==
  [type |-> fmt,
   quality |-> IF fmt = FmtPng THEN NoQuality ELSE [defined |-> TRUE, n |-> q]]

\* lines 87-90: imageBuffer = await element.screenshot({...})
Screenshot ==
  /\ pc = "screenshot"
  /\ calls' = Append(calls, "screenshot")
  /\ shot' = ScreenshotOptions(format, quality)
  /\ \/ /\ \E img \in Images : imageBuffer' = img
        /\ pc' = "setCacheControl"
        /\ UNCHANGED <<error, cutoff>>
     \/ /\ Throw(CallError("screenshot"))
        /\ UNCHANGED imageBuffer
  /\ UNCHANGED <<concVars, NODE_ENV, query, hangs, locals, browser, viewport, navTimeout,
                 selectorTimeout, res,
                 responses, logged, outcome>>

\* lines 100-103: res.setHeader("Cache-Control", ...)
SetCacheControl ==
  /\ pc = "setCacheControl"
  /\ \/ /\ res' = [res EXCEPT !.cacheControl = CacheControlValue]
        /\ pc' = "setContentType"
        /\ UNCHANGED <<error, cutoff>>
     \/ /\ Throw(CallError("setHeader"))
        /\ UNCHANGED res
  /\ UNCHANGED <<concVars, NODE_ENV, query, hangs, locals, browser, imageBuffer, calls, pageState,
                 responses, logged, outcome>>

\* line 105: res.setHeader("Content-Type", `image/${format}`)
SetContentType ==
  /\ pc = "setContentType"
  /\ \/ /\ res' = [res EXCEPT !.contentType = ContentTypeValue(format)]
        /\ pc' = "send"
        /\ UNCHANGED <<error, cutoff>>
     \/ /\ Throw(CallError("setHeader"))
        /\ UNCHANGED res
  /\ UNCHANGED <<concVars, NODE_ENV, query, hangs, locals, browser, imageBuffer, calls, pageState,
                 responses, logged, outcome>>

\* line 106: res.send(imageBuffer)
Send ==
  /\ pc = "send"
  /\ \/ /\ responses' = Append(responses, SendBuffer(res, imageBuffer))
        /\ pc' = "finally"
        /\ UNCHANGED <<error, cutoff>>
     \/ /\ Throw(CallError("send"))
        /\ UNCHANGED responses
  /\ UNCHANGED <<concVars, NODE_ENV, query, hangs, locals, browser, imageBuffer, calls, pageState,
                 res, logged, outcome>>

\* Catch without the `return` after the redirect
CatchWithoutReturn ==
  /\ pc = "catch"
  /\ logged' = Append(logged, error)
  /\ res' = [res EXCEPT !.statusCode = 500]
  /\ responses' =
       (IF Truthy(fallback)
        THEN Append(responses, SendRedirect(res, fallback.s))
        ELSE responses)
       \o <<SendJson(res, 500, [code |-> "UNEXPECTED_ERROR",
                                message |-> ErrToString(error), image |-> ""])>>
  /\ pc' = "finally"
  /\ UNCHANGED <<concVars, NODE_ENV, query, hangs, locals, browser, imageBuffer, error, cutoff,
                 calls, pageState, outcome>>

\* Catch testing `fallback !== null` in place of `fallback`
CatchRedirectWhenNotNull ==
  /\ pc = "catch"
  /\ logged' = Append(logged, error)
  /\ IF fallback # Null
     THEN /\ responses' = Append(responses, SendRedirect(res, fallback.s))
          /\ UNCHANGED res
     ELSE /\ res' = [res EXCEPT !.statusCode = 500]
          /\ responses' = Append(responses,
               SendJson(res, 500, [code |-> "UNEXPECTED_ERROR",
                                   message |-> ErrToString(error), image |-> ""]))
  /\ pc' = "finally"
  /\ UNCHANGED <<concVars, NODE_ENV, query, hangs, locals, browser, imageBuffer, error, cutoff, calls,
                 pageState, outcome>>

\* lines 107-121: the catch block logs the error and answers with the
\* fallback redirect or with the 500 error
Catch ==
  /\ pc = "catch"
  /\ logged' = Append(logged, error)
  /\ IF Truthy(fallback)
     THEN /\ responses' = Append(responses, SendRedirect(res, fallback.s))
          /\ UNCHANGED res
     ELSE /\ res' = [res EXCEPT !.statusCode = 500]
          /\ responses' = Append(responses,
               SendJson(res, 500, [code |-> "UNEXPECTED_ERROR",
                                   message |-> ErrToString(error), image |-> ""]))
  /\ pc' = "finally"
  /\ UNCHANGED <<concVars, NODE_ENV, query, hangs, locals, browser, imageBuffer, error, cutoff, calls,
                 pageState, outcome>>

\* Finally with the close at the end of the try block: skipped after an error
FinallyCloseOnSuccessOnly ==
  /\ pc = "finally"
  /\ IF browser # "null" /\ error = NoError
     THEN /\ calls' = Append(calls, "close")
          /\ \/ outcome' = "resolved"
             \/ outcome' = "rejected"
     ELSE /\ outcome' = "resolved"
          /\ UNCHANGED calls
  /\ pc' = "done"
  /\ UNCHANGED <<concVars, NODE_ENV, query, hangs, locals, browser, imageBuffer, error, cutoff, pageState,
                 res, responses, logged>>

\* lines 122-126: the finally block closes the browser when there is one;
\* an error thrown by browser.close() rejects the handler's promise
Finally ==
  /\ pc = "finally"
  /\ IF browser # "null"
     THEN /\ calls' = Append(calls, "close")
          /\ \/ outcome' = "resolved"
             \/ outcome' = "rejected"
     ELSE /\ outcome' = "resolved"
          /\ UNCHANGED calls
  /\ pc' = "done"
  /\ UNCHANGED <<concVars, NODE_ENV, query, hangs, locals, browser, imageBuffer, error, cutoff, pageState,
                 res, responses, logged>>

handler ==
  \/ RejectMissingUrl
  \/ RejectInvalidUrl
  \/ ResolveParams
  \/ getBrowserInstance
  \/ NewPage
  \/ SetViewport
  \/ SetDefaultNavigationTimeout
  \/ Goto
  \/ WaitForNetworkIdle
  \/ WaitForSelector
  \/ QuerySelector
  \/ Screenshot
  \/ SetCacheControl
  \/ SetContentType
  \/ Send
  \/ Catch
  \/ Finally

Next == handler

Spec == Init /\ [][Next]_vars

\* the handler serving a target page that may hang
SpecHang == InitHang /\ [][Next]_vars
\* the same, the event loop running every continuation that is ready
FairSpecHang == SpecHang /\ WF_vars(Next)

(***************************************************************************)
(* Concurrent invocations of the handler.  Each invocation r has its own   *)
(* locals (inflight[r]); the awaited steps of different invocations        *)
(* interleave.  The calls on the page of lines 70-90 are one step.         *)
(***************************************************************************)
\* the number of concurrent invocations
NumRequests == 2
Reqs == 1..NumRequests

\* what an invocation is asked: whether its url passes validation and
\* whether it carries a non-empty fallback
ConcQueries == [valid : BOOLEAN, fallback : BOOLEAN]

\* the locals of an invocation at its entry (line 65: browser = null)
ConcEntry(q) ==
  [query |-> q, pc |-> "validate", browser |-> 0, failed |-> FALSE,
   response |-> "none", sent |-> 0]

InitConc ==
  /\ InitWith({[url |-> Undef, fallback |-> Undef, pixelDensity |-> Undef,
                format |-> Undef, quality |-> Undef]}, {"none"})
  /\ inflight \in [Reqs -> {ConcEntry(q) : q \in ConcQueries}]
  /\ browsers = <<>>

\* an awaited call of invocation r throws: its own catch block runs next
ConcThrow(r) ==
  inflight' = [inflight EXCEPT ![r].failed = TRUE, ![r].pc = "catch"]

\* lines 45-54 of invocation r
ConcValidate(r) ==
  /\ UNCHANGED handlerVars
  /\ inflight[r].pc = "validate"
  /\ inflight' =
       IF inflight[r].query.valid
       THEN [inflight EXCEPT ![r].pc = "launch"]
       ELSE [inflight EXCEPT ![r].pc = "done", ![r].response = "reject",
                             ![r].sent = 1]
  /\ UNCHANGED browsers

\* ConcLaunch with the browser kept in a module-level variable and reused
ConcLaunchShared(r) ==
  /\ UNCHANGED handlerVars
  /\ inflight[r].pc = "launch"
  /\ \/ /\ inflight' = [inflight EXCEPT ![r].browser = 1, ![r].pc = "newPage"]
        /\ browsers' =
             IF browsers = <<>>
             THEN <<[owner |-> r, users |-> {}, closes |-> 0]>>
             ELSE browsers
     \/ /\ ConcThrow(r)
        /\ UNCHANGED browsers

\* line 68 and lines 23-42 of invocation r: every call of
\* getBrowserInstance launches a browser of its own, held in the local
\* variable of line 65
ConcLaunch(r) ==
  /\ UNCHANGED handlerVars
  /\ inflight[r].pc = "launch"
  /\ \/ /\ inflight' = [inflight EXCEPT ![r].browser = Len(browsers) + 1,
                                         ![r].pc = "newPage"]
        /\ browsers' = Append(browsers, [owner |-> r, users |-> {}, closes |-> 0])
     \/ /\ ConcThrow(r)
        /\ UNCHANGED browsers

\* line 69 of invocation r: browser.newPage() on its own handle
ConcNewPage(r) ==
  /\ UNCHANGED handlerVars
  /\ inflight[r].pc = "newPage"
  /\ browsers' = [browsers EXCEPT ![inflight[r].browser].users = @ \cup {r}]
  /\ \/ inflight' = [inflight EXCEPT ![r].pc = "render"]
     \/ ConcThrow(r)

\* lines 70-90 of invocation r: the calls on its own page
ConcRender(r) ==
  /\ UNCHANGED handlerVars
  /\ inflight[r].pc = "render"
  /\ \/ inflight' = [inflight EXCEPT ![r].pc = "send"]
     \/ ConcThrow(r)
  /\ UNCHANGED browsers

\* lines 100-106 of invocation r
ConcSend(r) ==
  /\ UNCHANGED handlerVars
  /\ inflight[r].pc = "send"
  /\ \/ inflight' = [inflight EXCEPT ![r].pc = "finally", ![r].response = "send",
                                      ![r].sent = @ + 1]
     \/ ConcThrow(r)
  /\ UNCHANGED browsers

\* lines 107-121 of invocation r
ConcCatch(r) ==
  /\ UNCHANGED handlerVars
  /\ inflight[r].pc = "catch"
  /\ inflight' =
       [inflight EXCEPT ![r].pc = "finally",
                        ![r].response =
                          IF inflight[r].query.fallback THEN "redirect" ELSE "error",
                        ![r].sent = @ + 1]
  /\ UNCHANGED browsers

\* lines 122-126 of invocation r: browser.close() on its own handle
ConcFinally(r) ==
  /\ UNCHANGED handlerVars
  /\ inflight[r].pc = "finally"
  /\ inflight' = [inflight EXCEPT ![r].pc = "done"]
  /\ browsers' =
       IF inflight[r].browser # 0
       THEN [browsers EXCEPT ![inflight[r].browser].users = @ \cup {r},
                             ![inflight[r].browser].closes = @ + 1]
       ELSE browsers

NextConc ==
  \E r \in Reqs :
    \/ ConcValidate(r)
    \/ ConcLaunch(r)
    \/ ConcNewPage(r)
    \/ ConcRender(r)
    \/ ConcSend(r)
    \/ ConcCatch(r)
    \/ ConcFinally(r)

\* several invocations of the handler, their awaited steps interleaved
SpecConc == InitConc /\ [][NextConc]_vars

(***************************************************************************)
(* Derived quantities.                                                     *)
(***************************************************************************)
\* the number of calls of op made so far
CallCount(op) == Cardinality({i \in DOMAIN calls : calls[i] = op})
Finished == pc = "done"

TypeOK ==
  /\ pc \in {"validate", "launch", "newPage", "setViewport",
             "setDefaultNavigationTimeout", "goto", "waitForNetworkIdle",
             "waitForSelector", "$", "screenshot", "setCacheControl",
             "setContentType", "send", "catch", "finally", "done"}
  /\ outcome \in {"pending", "resolved", "rejected"}
  /\ browser \in {"null", "browser"}

Launched == browser # "null"
\* the url passed validation: the handler went past line 54
ValidationPassed == pc # "validate" /\ ~(pc = "done" /\ calls = <<>>)
UrlAbsentOrEmpty == query.url = Undef \/ query.url = Str(<<>>)
FallbackGiven == query.fallback.t = "string" /\ query.fallback.s # <<>>
FallbackAbsentOrEmpty == query.fallback = Undef \/ query.fallback = Str(<<>>)
\* a call of the try block threw
PipelineFailed == error # NoError
\* the try block ran to its end
RenderSucceeded == pc \in {"finally", "done"} /\ ValidationPassed /\ ~PipelineFailed
\* the url matches one of the patterns in force under NODE_ENV
MatchesAllowList ==
  LET s == ToStr(query.url)
  IN \/ ReOkpcApp(s)
     \/ ReOkpcVercel(s)
     \/ NODE_ENV # "production" /\ ReLocalhost(s)
IsReject(code) ==
  /\ Len(responses) = 1
  /\ responses[1].kind = "json"
  /\ responses[1].status = 400
  /\ responses[1].body.code = code

(***************************************************************************)
(* Claims.                                                                 *)
(***************************************************************************)
\* C1: browser.close is never invoked twice and only on a launched browser;
\* when the handler finishes it has been invoked exactly once if a browser
\* was launched and not at all otherwise, in particular not after a
\* validation reject, wherever the pipeline failed.
C1_CloseExactlyOnce ==
  /\ CallCount("close") <= 1
  /\ CallCount("close") = 1 => Launched
  /\ Finished => CallCount("close") = (IF Launched THEN 1 ELSE 0)
  /\ (Finished /\ ~ValidationPassed) =>
       CallCount("launch") = 0 /\ CallCount("close") = 0

C1_Witness ==
  /\ Finished
  /\ Launched
  /\ error = CallError("screenshot")
  /\ CallCount("close") = 1

\* C2: a request whose url is absent or empty never launches a browser and
\* is answered with status 400 and code MISSING_URL, whatever the other
\* parameters are.
C2_MissingUrl ==
  UrlAbsentOrEmpty =>
    /\ CallCount("launch") = 0
    /\ ~Launched
    /\ pc \in {"validate", "done"}
    /\ Finished => IsReject("MISSING_URL")

C2_Witness ==
  /\ Finished
  /\ query.url = Str(<<>>)
  /\ query.fallback = Str(FallbackUrl)
  /\ query.format = Str(FmtJpeg)
  /\ IsReject("MISSING_URL")

\* C3 as stated: every request that carries a url matching none of the
\* allow-list patterns is answered 400 INVALID_URL without a launch; every
\* url matching a pattern passes validation and a launch is attempted; the
\* localhost pattern is in the list only outside production.
C3_AsStated ==
  /\ (Finished /\ query.url # Undef /\ ~MatchesAllowList) =>
       IsReject("INVALID_URL") /\ CallCount("launch") = 0
  /\ (Finished /\ MatchesAllowList) =>
       ValidationPassed /\ CallCount("launch") = 1
  /\ NODE_ENV = "production" => "localhost" \notin Range(allowedHostnames(NODE_ENV))

\* C3 (amended): every request whose url is non-empty and matches none of
\* the allow-list patterns is answered 400 INVALID_URL without a launch (an
\* empty url is answered MISSING_URL); every url matching a pattern passes
\* validation and a launch is attempted; the localhost pattern is in the
\* list only outside production.
C3_InvalidUrl ==
  /\ (Finished /\ ~UrlAbsentOrEmpty /\ ~MatchesAllowList) =>
       IsReject("INVALID_URL") /\ CallCount("launch") = 0
  /\ (Finished /\ MatchesAllowList) =>
       ValidationPassed /\ CallCount("launch") = 1
  /\ NODE_ENV = "production" => "localhost" \notin Range(allowedHostnames(NODE_ENV))

C3_Witness ==
  /\ Finished
  /\ NODE_ENV = "production"
  /\ query.url = Str(UrlLocal)
  /\ IsReject("INVALID_URL")

\* C4: after the failure of a step of the try block, the one response is a
\* redirect to exactly the fallback string when a non-empty fallback was
\* supplied, and the 500 UNEXPECTED_ERROR response carrying the stringified
\* error when the fallback is absent or empty; the browser, if launched, has
\* been closed exactly once when the handler finishes.
C4_FailureResponse ==
  (pc \in {"finally", "done"} /\ PipelineFailed) =>
    /\ Len(responses) = 1
    /\ FallbackGiven =>
         /\ responses[1].kind = "redirect"
         /\ responses[1].location = query.fallback.s
    /\ FallbackAbsentOrEmpty =>
         /\ responses[1].kind = "json"
         /\ responses[1].status = 500
         /\ responses[1].body.code = "UNEXPECTED_ERROR"
         /\ responses[1].body.message = error.name \o ": " \o error.message
    /\ (Finished /\ Launched) => CallCount("close") = 1

C4_Witness ==
  /\ Finished
  /\ error.message = "No #opengraph-image element found at path"
  /\ query.fallback = Str(FallbackUrl)
  /\ Len(responses) = 1
  /\ responses[1].kind = "redirect"
  /\ responses[1].location = FallbackUrl
  /\ CallCount("close") = 1

\* C5: every error raised after validation, from the browser launch through
\* the browser close, is caught and answered with the redirect or the 500
\* error: the handler's promise is never rejected.
C5_NeverRejects ==
  (Finished /\ ValidationPassed) =>
    /\ outcome = "resolved"
    /\ Len(responses) = 1

\* C6: the effective pixel density, which is the viewport's device scale
\* factor, is a positive integer: the requested value when that parses to a
\* positive integer, and 1 when it is absent, unparsable, zero or negative.
C6_PixelDensity ==
  ValidationPassed =>
    LET p == parseInt(query.pixelDensity)
    IN /\ pixelDensity >= 1
       /\ pixelDensity = (IF ~p.nan /\ p.n > 0 THEN p.n ELSE 1)
       /\ CallCount("setViewport") > 0 => viewport.deviceScaleFactor = pixelDensity

\* C7: the effective quality is the requested quality whenever that is an
\* integer in 0..100, 0 included, and 70 when it is absent or does not parse.
C7_Quality ==
  ValidationPassed =>
    LET q == parseInt(query.quality)
    IN /\ (~q.nan /\ q.n \in 0..100) => quality = q.n
       /\ q.nan => quality = 70

\* the Content-Type of an image of each format
ImageType(f) ==
  IF f = FmtPng THEN <<"i","m","a","g","e","/","p","n","g">>
  ELSE IF f = FmtJpeg THEN <<"i","m","a","g","e","/","j","p","e","g">>
  ELSE IF f = FmtWebp THEN <<"i","m","a","g","e","/","w","e","b","p">>
  ELSE <<>>

\* C8: the resolved format is png, jpeg or webp: the requested format when
\* that is one of the three strings and png for anything else; every 200
\* response has Content-Type image/<resolved format>, the format the
\* screenshot was taken in.
C8_Format ==
  ValidationPassed =>
    /\ format \in {FmtPng, FmtJpeg, FmtWebp}
    /\ format = (IF query.format \in {Str(FmtPng), Str(FmtJpeg), Str(FmtWebp)}
                 THEN query.format.s ELSE FmtPng)
    /\ \A i \in DOMAIN responses :
         responses[i].status = 200 =>
           /\ responses[i].contentType = ImageType(format)
           /\ shot.type = format

C8_Witness ==
  /\ Finished
  /\ query.format = Str(FmtWebp)
  /\ Len(responses) = 1
  /\ responses[1].status = 200
  /\ responses[1].contentType = ImageType(FmtWebp)

\* C9: a screenshot taken as png is passed no quality, whatever quality the
\* request carried; a screenshot taken as jpeg or webp is passed the
\* effective quality.
C9_QualityOnlyWhenLossy ==
  CallCount("screenshot") > 0 =>
    /\ shot.type = FmtPng => ~shot.quality.defined
    /\ shot.type \in {FmtJpeg, FmtWebp} =>
         shot.quality.defined /\ shot.quality.n = quality

C9_Witness ==
  /\ CallCount("screenshot") > 0
  /\ query.quality = Str(<<"1","0","0">>)
  /\ quality = 100
  /\ shot.type = FmtPng
  /\ ~shot.quality.defined

\* C10: a render whose steps all succeeded is answered once, with status
\* 200, the bytes the screenshot returned as body and Cache-Control
\* "s-maxage=28800, stale-while-revalidate=86400".
C10_SuccessResponse ==
  RenderSucceeded =>
    /\ Len(responses) = 1
    /\ responses[1].kind = "send"
    /\ responses[1].status = 200
    /\ imageBuffer \in Images
    /\ responses[1].body.image = imageBuffer
    /\ responses[1].cacheControl =
         <<"s","-","m","a","x","a","g","e","=","2","8","8","0","0",",",
           " ","s","t","a","l","e","-","w","h","i","l","e","-","r","e","v",
           "a","l","i","d","a","t","e","=","8","6","4","0","0">>

C10_Witness ==
  /\ Finished
  /\ RenderSucceeded
  /\ outcome = "resolved"
  /\ Len(responses) = 1
  /\ responses[1].body.image = "imageB"

\* the calls of the try block, in the order of the source
PipelineOrder ==
  <<"launch", "newPage", "setViewport", "setDefaultNavigationTimeout", "goto",
    "waitForNetworkIdle", "waitForSelector", "$", "screenshot">>
\* the calls made so far, the closing call left out
PipelineCalls == SubSeq(calls, 1, Len(calls) - CallCount("close"))

\* C12: the calls are made in the order launch, newPage, setViewport,
\* setDefaultNavigationTimeout (10 s), goto, waitForNetworkIdle,
\* waitForSelector (500 ms), $, screenshot, each one only when the one
\* before has returned; the headers are set and the response is sent after
\* the screenshot, and the browser is closed last.
C12_Order ==
  /\ Len(PipelineCalls) <= Len(PipelineOrder)
  /\ PipelineCalls = SubSeq(PipelineOrder, 1, Len(PipelineCalls))
  /\ (~PipelineFailed /\ ValidationPassed /\ Len(calls) < Len(PipelineOrder)) =>
       pc = PipelineOrder[Len(calls) + 1]
  /\ CallCount("goto") > 0 => navTimeout = 10000
  /\ CallCount("waitForSelector") > 0 => selectorTimeout = 500
  /\ res.cacheControl # NoHeader => CallCount("screenshot") = 1 /\ imageBuffer \in Images
  /\ res.contentType # NoHeader => res.cacheControl # NoHeader
  /\ \A i \in DOMAIN responses :
       responses[i].kind = "send" =>
         /\ PipelineCalls = PipelineOrder
         /\ responses[i].cacheControl # NoHeader
         /\ responses[i].contentType # NoHeader
  /\ CallCount("close") > 0 =>
       /\ calls[Len(calls)] = "close"
       /\ Len(responses) = 1
       /\ Finished

C12_Witness ==
  /\ Finished
  /\ calls = PipelineOrder \o <<"close">>
  /\ Len(responses) = 1
  /\ responses[1].kind = "send"
  /\ navTimeout = 10000
  /\ selectorTimeout = 500

\* C13: every call of the pipeline is made at most once, and once a call
\* has failed no further call is made but browser.close: what follows is
\* the error response and the close.
C13_NoRetry ==
  /\ [](\A i \in DOMAIN PipelineOrder : CallCount(PipelineOrder[i]) <= 1)
  /\ [][PipelineFailed =>
          /\ calls' = calls \/ calls' = Append(calls, "close")
          /\ pc' \in {"finally", "done"}
          /\ error' = error]_vars

C13_Witness ==
  /\ Finished
  /\ error = CallError("goto")
  /\ calls = <<"launch", "newPage", "setViewport", "setDefaultNavigationTimeout",
               "goto", "close">>
  /\ Len(responses) = 1

\* C14: a failed launch reaches the catch block: the request is answered
\* with the fallback redirect or the 500 UNEXPECTED_ERROR response, no page
\* call is made and browser.close is never invoked.
C14_LaunchFailure ==
  (error = CallError("launch") /\ pc \in {"finally", "done"}) =>
    /\ calls = <<"launch">>
    /\ ~Launched
    /\ Len(responses) = 1
    /\ FallbackGiven =>
         /\ responses[1].kind = "redirect"
         /\ responses[1].location = query.fallback.s
    /\ ~FallbackGiven =>
         /\ responses[1].kind = "json"
         /\ responses[1].status = 500
         /\ responses[1].body.code = "UNEXPECTED_ERROR"
    /\ Finished => outcome = "resolved"

C14_Witness ==
  /\ Finished
  /\ error = CallError("launch")
  /\ calls = <<"launch">>
  /\ Len(responses) = 1
  /\ responses[1].body.message = "Error: launch failed"

\* C15: a redirect is issued only after a call of the try block failed and
\* with a non-empty fallback; a request rejected by validation is answered
\* 400 even when a fallback is present, and a successful render is never
\* redirected.
C15_RedirectOnlyOnFailure ==
  /\ \A i \in DOMAIN responses :
       responses[i].kind = "redirect" =>
         /\ ValidationPassed
         /\ PipelineFailed
         /\ FallbackGiven
         /\ responses[i].location = query.fallback.s
  /\ (Finished /\ ~ValidationPassed) =>
       /\ Len(responses) = 1
       /\ responses[1].kind = "json"
       /\ responses[1].status = 400
  /\ RenderSucceeded => \A i \in DOMAIN responses : responses[i].kind = "send"

C15_Witness ==
  /\ Finished
  /\ query.url = Str(UrlEvil)
  /\ query.fallback = Str(FallbackUrl)
  /\ IsReject("INVALID_URL")

\* C16: a wait that the target page leaves pending is ended by a timeout:
\* the navigation and the network-idle wait by the 10 s navigation timeout,
\* the element wait by its own 500 ms timeout.
C16_TimeoutBounds ==
  /\ cutoff.op \in {"goto", "waitForNetworkIdle"} =>
       cutoff.by = "navigationTimeout" /\ navTimeout = 10000
  /\ cutoff.op = "waitForSelector" =>
       cutoff.by = "options.timeout" /\ selectorTimeout = 500

\* a request to a hanging page is eventually answered and its browser closed
C16_EventuallyAnswered ==
  <>(Finished /\ Len(responses) = 1 /\ (Launched => CallCount("close") = 1))

\* C17: the quality handed to the jpeg or webp encoder lies in 0..100.
C17_QualityInRange ==
  (CallCount("screenshot") > 0 /\ shot.quality.defined) =>
    shot.quality.n \in 0..100

\* C18: never more than one response is issued, and when the handler
\* finishes exactly one has been: after a validation reject, a success, a
\* failure with or without fallback, a failure of res.send and a failure
\* of browser.close.
C18_ExactlyOneResponse ==
  /\ Len(responses) <= 1
  /\ pc \in {"finally", "done"} => Len(responses) = 1

C18_Witness ==
  /\ Finished
  /\ error = CallError("send")
  /\ outcome = "rejected"
  /\ Len(responses) = 1

\* C19: only the response of a successful render carries the Cache-Control
\* directive and the image Content-Type: no 400, 500 or redirect response
\* does, whenever the failure occurred.
C19_CacheOnlyOnSuccess ==
  \A i \in DOMAIN responses :
    responses[i].kind # "send" =>
      /\ responses[i].cacheControl = NoHeader
      /\ responses[i].contentType \notin
           {ImageType(FmtPng), ImageType(FmtJpeg), ImageType(FmtWebp)}

\* C11: under every interleaving of concurrent invocations, a launched
\* browser is used (newPage, close) only by the invocation that launched
\* it and is closed by it exactly once, no two invocations hold the same
\* browser, and the query and the response of an invocation are determined
\* by its own request and its own failures.
C11_Isolation ==
  /\ \A h \in DOMAIN browsers :
       /\ browsers[h].users \subseteq {browsers[h].owner}
       /\ browsers[h].closes <= 1
       /\ inflight[browsers[h].owner].browser = h
       /\ inflight[browsers[h].owner].pc = "done" => browsers[h].closes = 1
  /\ \A r1, r2 \in Reqs :
       (r1 # r2 /\ inflight[r1].browser # 0) =>
         inflight[r1].browser # inflight[r2].browser
  /\ \A r \in Reqs :
       /\ inflight[r].browser # 0 =>
            /\ inflight[r].browser \in DOMAIN browsers
            /\ browsers[inflight[r].browser].owner = r
       /\ inflight[r].sent <= 1
       /\ inflight[r].pc = "done" =>
            /\ inflight[r].sent = 1
            /\ inflight[r].response =
                 (IF ~inflight[r].query.valid THEN "reject"
                  ELSE IF ~inflight[r].failed THEN "send"
                  ELSE IF inflight[r].query.fallback THEN "redirect"
                  ELSE "error")

C11_Witness ==
  /\ inflight[1].pc = "done"
  /\ inflight[2].pc = "done"
  /\ inflight[1].response = "send"
  /\ inflight[2].response = "error"
  /\ inflight[1].browser = 2
  /\ inflight[2].browser = 1
  /\ browsers[1].closes = 1
  /\ browsers[2].closes = 1

====
